---- MODULE Spec2Model ----
(***************************************************************************)
(* Adaptive query-processing workflow of the intelligent QA system:        *)
(* query_analysis -> strategy_route -> {local|global|hybrid}_search ->     *)
(* quality_assessment -> (web_search ->) answer_generation -> END,         *)
(* executed by a compiled LangGraph StateGraph with a per-thread           *)
(* MemorySaver checkpoint.                                                 *)
(* Beside the workflow: two runs in flight on one thread_id, the debug     *)
(* queries, get_workflow, and RetryHandler and CircuitBreaker of           *)
(* utils/error_handling.py, each under a specification of its own.         *)
(*                                                                         *)
(* Numbers: every score, confidence and threshold is a rational in [0,1]   *)
(* held as an integer on the scale ONE (1.0 = ONE); H(x) is x hundredths.  *)
(* Text: a retrieved content is held by what the code reads of it: its     *)
(* stripped length and, per expected key entity, whether the entity occurs *)
(* in it and how many of the entity's words do.  A user query is held by   *)
(* its word count.  A web result list is held by its length.               *)
(***************************************************************************)
EXTENDS Integers, Sequences, FiniteSets, TLC

VARIABLES
    config,     \* core/config.py Config: CONFIDENCE_THRESHOLD, TAVILY_API_KEY set or not
    state,      \* the AgentState checkpointed under the thread_id (MemorySaver)
    pc,         \* the node that runs next ("idle", a node name, "END", "returned")
    status,     \* "idle", "running", "done" of a run; "unit" for a single node call;
                \* "concurrent", "retry", "breaker", "get_workflow" under the specifications
                \* of concurrent runs, RetryHandler, CircuitBreaker and get_workflow
    route,      \* the stages executed so far in the current run, in order
    last,       \* the most recent node call: its name, input state, returned patch, collaborator outcome
    result,     \* what query_async returned for the last finished run
    runs,       \* how many queries were submitted on the thread_id
    streamed,   \* the patches query_stream_async yielded in the current run, merged in order
    conc,       \* two runs in flight on one thread_id: checkpoint, each run's own state and position
    retry,      \* a RetryHandler and its retry_with_backoff call in progress
    breaker,    \* a CircuitBreaker, the clock, and its callers' positions in call()
    singleton,  \* the module global _workflow_instance and the threads inside get_workflow()
    debug       \* a debug query: which of its two graph executions runs, and the first one's outcome

flowVars == <<config, state, pc, status, route, last, result, runs, streamed>>
utilVars == <<retry, breaker, singleton, debug>>
vars == <<flowVars, conc, utilVars>>

-----------------------------------------------------------------------------
(* Scale and small helpers                                                 *)

ONE == 1200 * 1000
H(x) == x * 12000
Min(a, b) == IF a < b THEN a ELSE b
Max(a, b) == IF a > b THEN a ELSE b

ABSENT == "<absent>"                 \* a key the state dict does not hold
Get(v, default) == IF v = ABSENT THEN default ELSE v

RECURSIVE SumSeq(_)
SumSeq(s) == IF s = <<>> THEN 0 ELSE Head(s) + SumSeq(Tail(s))

SeqsUpTo(S, n) == UNION {[1..k -> S] : k \in 0..n}

-----------------------------------------------------------------------------
(* Bounds of the model                                                     *)

MaxEntities == 2        \* key entities per query
MaxRawResults == 4      \* raw results a web search provider response holds
MaxRuns == 2            \* queries submitted one after the other on the thread_id

-----------------------------------------------------------------------------
(* Domains                                                                 *)

QueryTypes == {"FACTUAL", "RELATIONAL", "ANALYTICAL"}
CanonicalModes == {"local", "global", "hybrid"}
LegacyModes == {"naive", "mix"}
AnyModes == CanonicalModes \cup LegacyModes \cup {"", "bogus", ABSENT}
SearchNodes == {"local_search", "global_search", "hybrid_search"}
EntityWords == {1, 2}                \* a key entity is one word or two

\* the empty lightrag_results dict ({}), the default of state.get("lightrag_results", {})
NoResults == [content |-> 0, mode |-> ABSENT, error |-> FALSE, matched |-> <<>>]

\* AgentState of a thread that has no checkpoint yet: no key is set.
\* retrieval_score, retrieval_success, need_web_search, key_entities, web_results
\* and lightrag_results are read everywhere through state.get(key, d) with the one
\* default d, so an absent key is held as that default.
EmptyState ==
    [ user_query |-> 0,
      query_type |-> ABSENT,
      lightrag_mode |-> ABSENT,
      key_entities |-> <<>>,
      mode_reasoning |-> ABSENT,
      lightrag_results |-> NoResults,
      retrieval_score |-> 0,
      retrieval_success |-> FALSE,
      confidence_score |-> -1,            \* -1: absent
      need_web_search |-> FALSE,
      confidence_threshold |-> -1,        \* -1: absent
      assessment_reason |-> ABSENT,
      web_results |-> 0,
      web_search_summary |-> ABSENT,
      final_answer |-> ABSENT,
      sources |-> <<>>,
      context_used |-> 0,
      lightrag_mode_used |-> ABSENT,
      answer_confidence |-> -1 ]          \* -1: absent

\* LangGraph merges a node's patch into the state: keys of the state schema are
\* overwritten (no reducers are declared), keys outside AgentState are dropped.
Merge(s, patch) ==
    [k \in DOMAIN s |-> IF k \in DOMAIN patch THEN patch[k] ELSE s[k]]

-----------------------------------------------------------------------------
(* agents/strategy_route.py                                                *)

expected_mapping(query_type, default) ==
    CASE query_type = "FACTUAL" -> "local"
      [] query_type = "RELATIONAL" -> "global"
      [] query_type = "ANALYTICAL" -> "hybrid"
      [] OTHER -> default

route_mapping(lightrag_mode) ==
    CASE lightrag_mode = "local" -> "local_search"
      [] lightrag_mode = "global" -> "global_search"
      [] lightrag_mode = "hybrid" -> "hybrid_search"
      [] lightrag_mode = "naive" -> "local_search"
      [] lightrag_mode = "mix" -> "hybrid_search"
      [] OTHER -> "hybrid_search"

\* RouteDecision(...).to_dict(): the pydantic model of src/schemas.py, taken as the
\* plain record of the four fields it is constructed with.
RouteDecision(lightrag_mode, query_type, next_node, route_decision) ==
    [ lightrag_mode |-> lightrag_mode,
      query_type |-> query_type,
      next_node |-> next_node,
      route_decision |-> route_decision ]

\* a mode kept as given when it disagrees with the canonical mapping
_create_validated_route_decision_nofix(query_type, lightrag_mode) ==
    LET next_node == route_mapping(lightrag_mode)
    IN  RouteDecision(lightrag_mode, query_type, next_node,
            [ input_query_type |-> query_type,
              selected_mode |-> lightrag_mode,
              target_node |-> next_node,
              validation_status |-> "validated",
              auto_corrected |-> lightrag_mode # expected_mapping(query_type, lightrag_mode) ])

_create_validated_route_decision(query_type, lightrag_mode) ==
    LET expected_mode == expected_mapping(query_type, "hybrid")
        \* line 100-103: the local lightrag_mode is overwritten when it mismatches
        mode == IF lightrag_mode # expected_mode THEN expected_mode ELSE lightrag_mode
        next_node == route_mapping(mode)
    IN  RouteDecision(mode, query_type, next_node,
            [ input_query_type |-> query_type,
              selected_mode |-> mode,
              target_node |-> next_node,
              validation_status |-> "validated",
              \* line 128 reads the overwritten lightrag_mode
              auto_corrected |-> mode # expected_mapping(query_type, mode) ])

\* The except branch (lines 60-77) is taken only if RouteDecision(...) raises, which a
\* plain record constructor never does.
strategy_route_node(s) ==
    _create_validated_route_decision(Get(s.query_type, "ANALYTICAL"),
                                     Get(s.lightrag_mode, "hybrid"))

-----------------------------------------------------------------------------
(* agents/query_analysis.py                                                *)

\* What the structured LLM call of the classifier does: it raises (construction,
\* invoke or schema validation), or returns a QueryAnalysisResult.
ClassifierFailures == {"raise_construct", "raise_invoke", "invalid_output"}

ClassifierOutcomes(modes, entity_lists) ==
    [kind : ClassifierFailures, query_type : {ABSENT}, lightrag_mode : {ABSENT},
     key_entities : {<<>>}]
    \cup [kind : {"ok"}, query_type : QueryTypes, lightrag_mode : modes,
          key_entities : entity_lists]

\* QueryAnalysisResult.ensure_type_mode_consistency() (src/schemas.py, section 4.1 of
\* the design): the mode is replaced by the canonical mode of the type.
ensure_type_mode_consistency(r) ==
    [r EXCEPT !.lightrag_mode = expected_mapping(r.query_type, "hybrid")]

\* create_fallback_query_analysis(user_query, error) (src/schemas.py, section 4.1)
create_fallback_query_analysis ==
    [ query_type |-> "ANALYTICAL", lightrag_mode |-> "hybrid",
      key_entities |-> <<>>, mode_reasoning |-> "fallback: analysis failed" ]

\* the node keeping what the state holds when the classifier fails
query_analysis_node_keep(s, llm) ==
    IF llm.kind = "ok"
    THEN LET r == ensure_type_mode_consistency(llm)
         IN  [ query_type |-> r.query_type, lightrag_mode |-> r.lightrag_mode,
               key_entities |-> r.key_entities, mode_reasoning |-> "llm" ]
    ELSE [ query_type |-> s.query_type, lightrag_mode |-> s.lightrag_mode,
           key_entities |-> s.key_entities, mode_reasoning |-> s.mode_reasoning ]

\* every exception of the try block (lines 55-84) reaches the except branch
query_analysis_node(s, llm) ==
    IF llm.kind = "ok"
    THEN LET r == ensure_type_mode_consistency(llm)
         IN  [ query_type |-> r.query_type, lightrag_mode |-> r.lightrag_mode,
               key_entities |-> r.key_entities, mode_reasoning |-> "llm" ]
    ELSE create_fallback_query_analysis

-----------------------------------------------------------------------------
(* agents/local_search.py, global_search.py, hybrid_search.py              *)

ModeOf(node) ==
    CASE node = "local_search" -> "local"
      [] node = "global_search" -> "global"
      [] node = "hybrid_search" -> "hybrid"

\* _calculate_{local,global,hybrid}_quality(content, query): 0.0 for an empty content;
\* otherwise the length part min(len/L, 1) * w of the mode plus the indicator bonuses
\* the text earns (indicator), clamped to 1.0.
_calculate_quality(mode, content, indicator) ==
    IF content = 0 THEN 0
    ELSE LET L == CASE mode = "local" -> 800 [] mode = "global" -> 1500 [] OTHER -> 2000
             w == CASE mode = "local" -> 30 [] mode = "global" -> 20 [] OTHER -> 15
             length_score == (Min(content, L) * (ONE \div L) * w) \div 100
         IN  Min(length_score + indicator, ONE)

\* per key entity: how many of its words occur in the content (k), and whether the
\* whole entity does (full); an entity that occurs whole has all its words occurring,
\* and a one-word entity occurs whole exactly when its word does.
EntityMatches(w) ==
    {m \in [k : 0..w, full : BOOLEAN] : (m.full => m.k = w) /\ (w = 1 /\ m.k = 1 => m.full)}

MatchesFor(key_entities, content) ==
    IF content = 0
    THEN {[i \in 1..Len(key_entities) |-> [k |-> 0, full |-> FALSE]]}
    ELSE {ms \in [1..Len(key_entities) -> [k : {0} \cup EntityWords, full : BOOLEAN]] :
             \A i \in 1..Len(key_entities) : ms[i] \in EntityMatches(key_entities[i])}

\* the three executors share one body; mode is the constant each passes to query_lightrag
\* an executor that leaves the results of the state in place when the backend fails
search_node_stale(node, s, backend) ==
    LET mode == ModeOf(node)
    IN  IF backend.kind = "ok"
        THEN [ lightrag_results |-> [content |-> backend.content, mode |-> mode,
                                     error |-> FALSE, matched |-> backend.matched],
               retrieval_score |-> _calculate_quality(mode, backend.content, backend.indicator),
               retrieval_success |-> TRUE,
               lightrag_mode_used |-> mode ]
        ELSE [ lightrag_results |-> s.lightrag_results,
               retrieval_score |-> s.retrieval_score,
               retrieval_success |-> FALSE,
               lightrag_mode_used |-> mode ]

search_node(node, s, backend) ==
    LET mode == ModeOf(node)
    IN  IF backend.kind = "ok"
        THEN [ lightrag_results |-> [content |-> backend.content, mode |-> mode,
                                     error |-> FALSE, matched |-> backend.matched],
               retrieval_score |-> _calculate_quality(mode, backend.content, backend.indicator),
               retrieval_success |-> TRUE,
               lightrag_mode_used |-> mode ]
        ELSE \* success=false (lines 97-115) and an exception (lines 117-135) alike
             [ lightrag_results |-> [content |-> 0, mode |-> mode,
                                     error |-> TRUE, matched |-> <<>>],
               retrieval_score |-> 0,
               retrieval_success |-> FALSE,
               lightrag_mode_used |-> mode ]

-----------------------------------------------------------------------------
(* agents/lightrag_retrieval.py: the single executor, not a node of the graph *)

\* quality: the mean of the five content indicators of _assess_content_quality
_calculate_retrieval_quality(content, mode, quality) ==
    IF content < 10
    THEN 0
    ELSE LET length_score == CASE content >= 1000 -> H(90)
                               [] content >= 500 -> H(80)
                               [] content >= 200 -> H(70)
                               [] content >= 100 -> H(60)
                               [] content >= 50 -> H(40)
                               [] OTHER -> H(20)
             mode_bonus == CASE mode = "local" -> H(5)
                             [] mode = "global" -> H(10)
                             [] mode = "hybrid" -> H(15)
                             [] OTHER -> H(5)
         IN  Min((length_score * 40 + quality * 40 + mode_bonus * 20) \div 100, ONE)

lightrag_retrieval_node(s, backend) ==
    LET retrieval_mode == Get(s.lightrag_mode, "hybrid")
    IN  IF backend.kind = "ok"
        THEN [ lightrag_results |-> [content |-> backend.content, mode |-> retrieval_mode,
                                     error |-> FALSE, matched |-> backend.matched],
               retrieval_score |-> _calculate_retrieval_quality(backend.content,
                                        retrieval_mode, backend.indicator),
               retrieval_success |-> TRUE ]
        ELSE \* success=false (lines 66-81) and an exception (lines 83-98) alike
             [ lightrag_results |-> [content |-> 0, mode |-> retrieval_mode,
                                     error |-> TRUE, matched |-> <<>>],
               retrieval_score |-> 0,
               retrieval_success |-> FALSE ]

-----------------------------------------------------------------------------
(* agents/quality_assessment.py                                            *)

\* the retrieval factor falling as the retrieval score rises
_evaluate_retrieval_score_inverted(s) == ONE - s.retrieval_score

_evaluate_retrieval_score(s) == s.retrieval_score

_evaluate_content_completeness(s) ==
    LET content_length == s.lightrag_results.content
    IN  CASE content_length = 0 -> 0
          [] content_length >= 800 -> H(100)
          [] content_length >= 400 -> H(90)
          [] content_length >= 200 -> H(70)
          [] content_length >= 100 -> H(60)
          [] content_length >= 50 -> H(40)
          [] OTHER -> H(20)

EntityScore(w, m) ==
    IF m.full THEN ONE
    ELSE IF m.k > 0 THEN (m.k * 6 * ONE) \div (w * 10)
    ELSE 0

_evaluate_entity_coverage(s) ==
    LET expected_entities == s.key_entities
        matched == s.lightrag_results.matched
        n == Len(expected_entities)
    IN  IF n = 0 THEN ONE
        ELSE IF s.lightrag_results.content = 0 THEN 0
        ELSE LET total_score == SumSeq([i \in 1..n |->
                                    IF i <= Len(matched)
                                    THEN EntityScore(expected_entities[i], matched[i])
                                    ELSE 0])
                 coverage == total_score \div n
             IN  IF coverage >= H(80) THEN Min(coverage + H(10), ONE)
                 ELSE IF coverage >= H(50) THEN Min(coverage + H(15), ONE)
                 ELSE Min(coverage + H(20), H(80))

_evaluate_mode_effectiveness(s) ==
    LET lightrag_mode == Get(s.lightrag_mode, "")
        ideal_mode == expected_mapping(Get(s.query_type, ""), "<None>")
    IN  IF ideal_mode = lightrag_mode THEN H(100)
        ELSE IF lightrag_mode = "hybrid" THEN H(80)
        ELSE H(60)

_evaluate_query_specificity(s) ==
    LET query_length == s.user_query
    IN  IF query_length >= 10 THEN H(100)
        ELSE IF query_length >= 5 THEN H(80)
        ELSE IF query_length >= 3 THEN H(60)
        ELSE H(40)

_get_dynamic_threshold(s) ==
    LET query_type == Get(s.query_type, "ANALYTICAL")
        adjustment == CASE query_type = "FACTUAL" -> H(5)
                        [] query_type = "RELATIONAL" -> 0 - H(5)
                        [] query_type = "ANALYTICAL" -> 0 - H(15)
                        [] OTHER -> 0
        threshold == config.CONFIDENCE_THRESHOLD + adjustment
    IN  Max(H(30), Min(H(90), threshold))

\* the base sentence of _generate_assessment_reason (line 291)
_generate_assessment_reason(confidence_score, threshold) ==
    IF confidence_score < threshold THEN "confidence < threshold" ELSE "confidence >= threshold"

local_bonus(lightrag_mode) ==
    CASE lightrag_mode = "local" -> H(10)
      [] lightrag_mode = "global" -> H(12)
      [] lightrag_mode = "hybrid" -> H(15)
      [] OTHER -> H(8)

NeedWebSearch(confidence_score, threshold) == confidence_score < threshold

_comprehensive_quality_assessment(s) ==
    LET factors == [ retrieval_score |-> _evaluate_retrieval_score(s),
                     content_completeness |-> _evaluate_content_completeness(s),
                     entity_coverage |-> _evaluate_entity_coverage(s),
                     mode_effectiveness |-> _evaluate_mode_effectiveness(s),
                     query_specificity |-> _evaluate_query_specificity(s) ]
        weighted == ( factors.retrieval_score * 30
                    + factors.content_completeness * 25
                    + factors.entity_coverage * 20
                    + factors.mode_effectiveness * 15
                    + factors.query_specificity * 10 ) \div 100
        bonus == IF s.retrieval_success /\ s.lightrag_results.content > 50
                 THEN local_bonus(Get(s.lightrag_mode, ""))
                 ELSE 0
        confidence_score == Min(weighted + bonus, ONE)
        threshold == _get_dynamic_threshold(s)
    IN  [ confidence_score |-> confidence_score,
          confidence_breakdown |-> factors,
          need_web_search |-> NeedWebSearch(confidence_score, threshold),
          confidence_threshold |-> threshold,
          assessment_reason |-> _generate_assessment_reason(confidence_score, threshold) ]

\* the short-circuit scoring the failed retrieval like a succeeded one
quality_assessment_node_noshort(s) == _comprehensive_quality_assessment(s)

quality_assessment_node(s) ==
    IF ~s.retrieval_success
    THEN [ confidence_score |-> 0,
           confidence_breakdown |-> [ retrieval_score |-> 0, content_completeness |-> 0,
                                      entity_coverage |-> 0, mode_effectiveness |-> 0 ],
           need_web_search |-> TRUE,
           confidence_threshold |-> config.CONFIDENCE_THRESHOLD,
           assessment_reason |-> "LightRAG retrieval failed, web search needed" ]
    ELSE _comprehensive_quality_assessment(s)

-----------------------------------------------------------------------------
(* agents/web_search.py                                                    *)

MAX_WEB_RESULTS == 5

\* What tavily_client.search does: it raises, or returns n raw results of which
\* valid have a cleaned content longer than 50 characters; bad_scores: the results
\* carry scores that do not compare (the sort of _process_search_results raises).
ProviderResponses ==
    {[kind |-> "raise", n |-> 0, valid |-> 0]}
    \cup {r \in [kind : {"ok"}, n : 0..MaxRawResults, valid : 0..MaxRawResults] : r.valid <= r.n}
    \cup {[kind |-> "bad_scores", n |-> 2, valid |-> 2]}

\* _execute_web_search: the provider's exception is caught (lines 124-126) and
\* turned into the empty list
_execute_web_search(resp) == IF resp.kind = "raise" THEN 0 ELSE resp.n

_process_search_results(resp) == Min(resp.valid, MAX_WEB_RESULTS)

\* the node searching whatever need_web_search says
web_search_node_always(s, resp) ==
    IF ~config.TAVILY_API_KEY
    THEN [web_results |-> 0, web_search_summary |-> "no API key, web search failed", called |-> FALSE]
    ELSE [web_results |-> _process_search_results(resp),
          web_search_summary |-> "web results fetched", called |-> TRUE]

\* called: whether the search provider was called (an observation, not a state key)
web_search_node(s, resp) ==
    IF ~s.need_web_search
    THEN [web_results |-> 0, called |-> FALSE]
    ELSE IF ~config.TAVILY_API_KEY
    THEN [web_results |-> 0, web_search_summary |-> "no API key, web search failed",
          called |-> FALSE]
    ELSE IF resp.kind = "bad_scores"
    THEN \* the outer except (lines 74-81)
         [web_results |-> 0, web_search_summary |-> "web search failed: error",
          called |-> TRUE]
    ELSE IF _execute_web_search(resp) > 0
    THEN [web_results |-> _process_search_results(resp),
          web_search_summary |-> "web results fetched", called |-> TRUE]
    ELSE [web_results |-> 0, web_search_summary |-> "web search found nothing",
          called |-> TRUE]

-----------------------------------------------------------------------------
(* agents/answer_generation.py                                             *)

APOLOGY == "apology: error while generating the answer"
LLM_TEXT == "text returned by the LLM"

_collect_context_information(s) ==
    LET has_lightrag == s.lightrag_results.content > 0
        has_web == s.web_results > 0
    IN  [ context_parts |-> (IF has_lightrag THEN 1 ELSE 0) + (IF has_web THEN 1 ELSE 0),
          lightrag_info |-> IF has_lightrag THEN s.lightrag_results ELSE NoResults,
          has_lightrag |-> has_lightrag,
          web_info |-> IF has_web THEN s.web_results ELSE 0,
          total_sources |-> (IF has_lightrag THEN 1 ELSE 0) + (IF has_web THEN s.web_results ELSE 0) ]

\* _format_web_results: the number of web results whose content enters the prompt
_format_web_results(web_results) == Min(web_results, 3)

\* the LLM's exception is caught (lines 281-283) and turned into the apology string
_generate_answer_with_llm(llm) == IF llm = "raise" THEN APOLOGY ELSE LLM_TEXT

_calculate_answer_confidence(s, context_info) ==
    LET base_confidence == IF s.confidence_score = -1 THEN H(50) ELSE s.confidence_score
        mode_bonus == IF context_info.has_lightrag
                      THEN CASE context_info.lightrag_info.mode = "local" -> H(10)
                             [] context_info.lightrag_info.mode = "global" -> H(15)
                             [] context_info.lightrag_info.mode = "hybrid" -> H(20)
                             [] OTHER -> H(10)
                      ELSE 0
        web_bonus == IF context_info.web_info > 0
                     THEN Min(context_info.web_info * H(5), H(15)) ELSE 0
        richness == IF context_info.total_sources > 1 THEN H(10) ELSE 0
        success == IF s.retrieval_success THEN H(5) ELSE 0
    IN  Min(base_confidence + mode_bonus + web_bonus + richness + success, ONE)

_organize_sources(context_info) ==
    (IF context_info.has_lightrag THEN <<"lightrag_knowledge">> ELSE <<>>)
    \o [i \in 1..context_info.web_info |-> "web_search"]

\* The outer except (lines 76-88) is taken only if a step other than the LLM call
\* raises; the LLM's own failure never reaches it.
\* prompt_web: how many web results the prompt holds (an observation, not a state key)
answer_generation_node(s, llm) ==
    LET context_info == _collect_context_information(s)
    IN  [ final_answer |-> _generate_answer_with_llm(llm),
          sources |-> _organize_sources(context_info),
          context_used |-> context_info.context_parts,
          lightrag_mode_used |-> Get(s.lightrag_mode, "unknown"),
          answer_confidence |-> _calculate_answer_confidence(s, context_info),
          prompt_web |-> _format_web_results(context_info.web_info) ]

-----------------------------------------------------------------------------
(* core/enhanced_workflow.py: the graph                                    *)

Nodes == {"query_analysis", "strategy_route"} \cup SearchNodes
         \cup {"quality_assessment", "web_search", "answer_generation"}

_route_to_search_node(s) ==
    CASE s.lightrag_mode = "local" -> "local_search"
      [] s.lightrag_mode = "global" -> "global_search"
      [] s.lightrag_mode = "hybrid" -> "hybrid_search"
      [] OTHER -> "local_search"

\* the branch that never escalates
_should_use_web_search_never(s) == "answer_generation"

_should_use_web_search(s) ==
    IF s.need_web_search THEN "web_search" ELSE "answer_generation"

\* an edge back from web_search to the confidence gate
_add_edges_loop(node, s) ==
    CASE node = "query_analysis" -> "strategy_route"
      [] node = "strategy_route" -> _route_to_search_node(s)
      [] node \in SearchNodes -> "quality_assessment"
      [] node = "quality_assessment" -> _should_use_web_search(s)
      [] node = "web_search" -> "quality_assessment"
      [] node = "answer_generation" -> "END"

\* the edge out of strategy_route bypassing the retrieval executors
_add_edges_skip(node, s) ==
    CASE node = "query_analysis" -> "strategy_route"
      [] node = "strategy_route" -> "quality_assessment"
      [] node \in SearchNodes -> "quality_assessment"
      [] node = "quality_assessment" -> _should_use_web_search(s)
      [] node = "web_search" -> "answer_generation"
      [] node = "answer_generation" -> "END"

\* _add_edges: the node that follows node, s being the state after node's patch
_add_edges(node, s) ==
    CASE node = "query_analysis" -> "strategy_route"
      [] node = "strategy_route" -> _route_to_search_node(s)
      [] node \in SearchNodes -> "quality_assessment"
      [] node = "quality_assessment" -> _should_use_web_search(s)
      [] node = "web_search" -> "answer_generation"
      [] node = "answer_generation" -> "END"

\* the state keys each node reads
Reads(node) ==
    CASE node = "query_analysis" -> {"user_query"}
      [] node = "strategy_route" -> {"query_type", "lightrag_mode", "user_query"}
      [] node \in SearchNodes -> {"user_query", "query_type"}
      [] node = "lightrag_retrieval" -> {"user_query", "lightrag_mode"}
      [] node = "quality_assessment" ->
            {"lightrag_results", "retrieval_success", "retrieval_score", "key_entities",
             "query_type", "lightrag_mode", "user_query"}
      [] node = "web_search" -> {"need_web_search", "user_query", "key_entities", "query_type"}
      [] node = "answer_generation" ->
            {"lightrag_results", "web_results", "user_query", "query_type", "lightrag_mode",
             "confidence_score", "retrieval_success"}

NoConc == [at |-> <<>>]
NoRetry == [pc |-> "none"]
NoBreaker == [state |-> "none"]
NoSingleton == [instance |-> 0]
NoDebug == [execution |-> 0]
NoCall == [node |-> "none"]
NoResult == [answer |-> ABSENT]

\* the consumer that drops the chunk of answer_generation
query_stream_async_short(merged, node, patch) ==
    IF node = "answer_generation" THEN merged ELSE Merge(merged, patch)

\* query_stream_async yields the chunk {node: patch} of astream (the node's writes to
\* the keys of AgentState); merged: what the chunks before it add up to
query_stream_async(merged, node, patch) == Merge(merged, patch)

\* one node call: the patch is merged into the state, the call is recorded
Call(node, patch, ext) ==
    /\ state' = Merge(state, patch)
    /\ streamed' = query_stream_async(streamed, node, patch)
    /\ last' = [node |-> node, in |-> [k \in Reads(node) |-> state[k]],
                out |-> patch, ext |-> ext]

-----------------------------------------------------------------------------
(* Inputs                                                                  *)

\* of the workflow runs
RunQueryWords == {5}                        \* word counts of user queries
RunEntityLists == {<<1>>}                   \* key entity lists (words per entity)
RunContentLengths == {0, 900}               \* stripped lengths of retrieved contents
RunIndicatorScores == {H(60)}               \* indicator bonuses a content earns
RunBaseThresholds == {H(70)}                \* CONFIDENCE_THRESHOLD (default 0.7)
RunClassifierModes == {"local", "hybrid", "naive"}   \* modes the classifier proposes
RunProviderResponses ==                     \* the provider raises, returns nothing,
    { [kind |-> "raise", n |-> 0, valid |-> 0],      \* only short contents, or results
      [kind |-> "bad_scores", n |-> 2, valid |-> 2],
      [kind |-> "ok", n |-> 0, valid |-> 0],
      [kind |-> "ok", n |-> 2, valid |-> 0],
      [kind |-> "ok", n |-> 2, valid |-> 2] }

\* What query_lightrag does: it reports success=false, raises, or returns a content
BackendOutcomes(key_entities, lengths, indicators) ==
    {[kind |-> "fail"], [kind |-> "raise"]}
    \cup UNION {[kind : {"ok"}, content : {c}, indicator : indicators,
                 matched : MatchesFor(key_entities, c)] : c \in lengths}

LLMOutcomes == {"ok", "raise"}

-----------------------------------------------------------------------------
(* core/enhanced_workflow.py: query_async on one thread_id                 *)

Init ==
    /\ config \in [CONFIDENCE_THRESHOLD : RunBaseThresholds, TAVILY_API_KEY : BOOLEAN]
    /\ state = EmptyState
    /\ pc = "idle"
    /\ status = "idle"
    /\ route = <<>>
    /\ last = NoCall
    /\ result = NoResult
    /\ runs = 0
    /\ streamed = EmptyState
    /\ conc = NoConc
    /\ retry = NoRetry
    /\ breaker = NoBreaker
    /\ singleton = NoSingleton
    /\ debug = NoDebug

\* query_async lines 439-452: the input is written over the thread's checkpointed
\* state and the graph starts at its entry point.  query (lines 406-421) awaits
\* query_async; query_stream_async (lines 655-664) starts the same graph with the same
\* input through astream.
Submit ==
    /\ status \in {"idle", "done"}
    /\ runs < MaxRuns
    /\ runs' = runs + 1
    /\ \E words \in RunQueryWords : state' = Merge(state, [user_query |-> words])
    /\ pc' = "query_analysis"
    /\ status' = "running"
    /\ route' = <<>>
    /\ last' = NoCall
    /\ result' = NoResult
    /\ streamed' = EmptyState
    /\ UNCHANGED <<config, conc, utilVars>>

Advance(node) ==
    /\ pc' = _add_edges(node, state')
    /\ route' = Append(route, node)
    /\ UNCHANGED <<config, status, result, runs, conc, utilVars>>

QueryAnalysis ==
    /\ status = "running" /\ pc = "query_analysis"
    /\ \E llm \in ClassifierOutcomes(RunClassifierModes, RunEntityLists) :
          Call("query_analysis", query_analysis_node(state, llm), llm)
    /\ Advance("query_analysis")

StrategyRoute ==
    /\ status = "running" /\ pc = "strategy_route"
    /\ Call("strategy_route", strategy_route_node(state), "none")
    /\ Advance("strategy_route")

Search ==
    /\ status = "running" /\ pc \in SearchNodes
    /\ \E backend \in BackendOutcomes(state.key_entities, RunContentLengths, RunIndicatorScores) :
          Call(pc, search_node(pc, state, backend), backend)
    /\ Advance(pc)

QualityAssessment ==
    /\ status = "running" /\ pc = "quality_assessment"
    /\ Call("quality_assessment", quality_assessment_node(state), "none")
    /\ Advance("quality_assessment")

WebSearch ==
    /\ status = "running" /\ pc = "web_search"
    /\ \E resp \in RunProviderResponses :
          Call("web_search", web_search_node(state, resp), resp)
    /\ Advance("web_search")

AnswerGeneration ==
    /\ status = "running" /\ pc = "answer_generation"
    /\ \E llm \in LLMOutcomes :
          Call("answer_generation", answer_generation_node(state, llm), llm)
    /\ Advance("answer_generation")

\* the inference that never lists web_search
route_taken_noweb(final_state) ==
    <<"query_analysis", "strategy_route", _route_to_search_node(final_state),
      "quality_assessment", "answer_generation">>

\* query_async lines 457-490: no key of the final state holds the executed path, so
\* the path is inferred from lightrag_mode and need_web_search
route_taken(final_state) ==
    (CASE final_state.lightrag_mode = "local" ->
            <<"query_analysis", "strategy_route", "local_search", "quality_assessment">>
       [] final_state.lightrag_mode = "global" ->
            <<"query_analysis", "strategy_route", "global_search", "quality_assessment">>
       [] final_state.lightrag_mode = "hybrid" ->
            <<"query_analysis", "strategy_route", "hybrid_search", "quality_assessment">>
       [] OTHER -> <<>>)
    \o (IF final_state.need_web_search THEN <<"web_search">> ELSE <<>>)
    \o <<"answer_generation">>

\* query_async lines 452-503: ainvoke returned, the result is assembled
Return ==
    /\ status = "running" /\ pc = "END"
    /\ status' = "done"
    /\ pc' = "idle"
    /\ result' = [ answer |-> state.final_answer,
                   sources |-> state.sources,
                   quality_score |-> state.confidence_score,
                   answer_confidence |-> state.answer_confidence,
                   route_taken |-> route_taken(state) ]
    /\ UNCHANGED <<config, state, route, last, runs, streamed, conc, utilVars>>

Stage == QueryAnalysis \/ StrategyRoute \/ Search \/ QualityAssessment
         \/ WebSearch \/ AnswerGeneration

Next == Submit \/ Stage \/ Return

Spec == Init /\ [][Next]_vars

\* the event loop runs the awaited graph to completion; nobody has to submit
FairSpec == Spec /\ WF_vars(Stage \/ Return)

-----------------------------------------------------------------------------
(* The nodes called one at a time on a given state, as tests/test_workflow.py does *)

UnitQueryWords == {2, 5}
UnitEntityLists == SeqsUpTo(EntityWords, MaxEntities)
UnitContentLengths == {0, 30, 51, 200, 800}
UnitScores == {0, H(50), H(90), ONE}
UnitIndicatorScores == {0, H(60)}
UnitBaseThresholds == {0, H(70), H(90)}
UnitConfidences == {-1, 0, H(50), H(80), ONE}
DefaultConfig == [CONFIDENCE_THRESHOLD |-> H(70), TAVILY_API_KEY |-> TRUE]

RouteInputs ==
    {[EmptyState EXCEPT !.query_type = t, !.lightrag_mode = m] :
        t \in QueryTypes \cup {ABSENT}, m \in AnyModes}

GateState(w, t, m, es, ok, sc, c, ms) ==
    [EmptyState EXCEPT !.user_query = w, !.query_type = t, !.lightrag_mode = m,
                       !.key_entities = es, !.retrieval_success = ok,
                       !.retrieval_score = sc,
                       !.lightrag_results = [content |-> c, mode |-> "local",
                                             error |-> FALSE, matched |-> ms]]

\* every combination of the scalar inputs, without key entities
GateScalarInputs ==
    {GateState(w, t, m, <<>>, ok, sc, c, <<>>) :
        w \in UnitQueryWords, t \in QueryTypes, m \in CanonicalModes \cup {ABSENT},
        ok \in BOOLEAN, sc \in UnitScores, c \in UnitContentLengths}

\* every list of key entities with every way the content can match it
GateEntityInputs ==
    UNION {
      {GateState(5, t, "local", es, ok, H(90), c, ms) :
          t \in QueryTypes, ok \in BOOLEAN, ms \in MatchesFor(es, c)}
      : es \in UnitEntityLists \ {<<>>}, c \in {30, 800} }

\* the state of TestQualityAssessmentNode.setUp (retrieval_score 0.8, one key entity
\* that occurs in the content, no lightrag_mode) and its neighbours
GateHighConfidenceInputs ==
    {GateState(w, "FACTUAL", m, <<1>>, TRUE, H(80), c, <<[k |-> 1, full |-> TRUE]>>) :
        w \in UnitQueryWords, m \in {ABSENT, "local"}, c \in {30, 800}}

\* every way a content can match the key entities, entities of up to five words
AllMatches(key_entities) ==
    {ms \in [1..Len(key_entities) -> [k : 0..5, full : BOOLEAN]] :
        \A i \in 1..Len(key_entities) : ms[i] \in EntityMatches(key_entities[i])}

\* three key entities of one, five and two words, with every way the content can
\* match them
GateCoverageInputs ==
    {GateState(5, "FACTUAL", "local", <<1, 5, 2>>, TRUE, H(90), 800, ms) :
        ms \in AllMatches(<<1, 5, 2>>)}

GateInputs == GateScalarInputs \cup GateEntityInputs \cup GateHighConfidenceInputs
              \cup GateCoverageInputs

WebInputs ==
    {[EmptyState EXCEPT !.user_query = w, !.query_type = t, !.need_web_search = need] :
        w \in UnitQueryWords, t \in QueryTypes, need \in BOOLEAN}

AnswerInputs ==
    {[EmptyState EXCEPT !.user_query = 5, !.query_type = "FACTUAL", !.lightrag_mode = m,
                        !.lightrag_results = [content |-> c, mode |-> m,
                                              error |-> FALSE, matched |-> <<>>],
                        !.web_results = n, !.confidence_score = cs,
                        !.retrieval_success = ok] :
        m \in CanonicalModes, c \in UnitContentLengths, n \in 0..MaxRawResults,
        cs \in UnitConfidences, ok \in BOOLEAN}

SearchInputs ==
    {[EmptyState EXCEPT !.user_query = w, !.key_entities = es] :
        w \in UnitQueryWords, es \in UnitEntityLists}

RetrievalInputs ==
    {[EmptyState EXCEPT !.user_query = w, !.lightrag_mode = m, !.key_entities = es] :
        w \in UnitQueryWords, m \in CanonicalModes \cup {ABSENT},
        es \in {<<>>, <<1>>}}

AnalysisInputs == {[EmptyState EXCEPT !.user_query = w] : w \in UnitQueryWords}

UnitInit ==
    /\ status = "unit"
    /\ route = <<>>
    /\ last = NoCall
    /\ result = NoResult
    /\ runs = 0
    /\ streamed = EmptyState
    /\ conc = NoConc
    /\ retry = NoRetry
    /\ breaker = NoBreaker
    /\ singleton = NoSingleton
    /\ debug = NoDebug
    /\ \/ pc = "query_analysis" /\ config = DefaultConfig /\ state \in AnalysisInputs
       \/ pc = "strategy_route" /\ config = DefaultConfig /\ state \in RouteInputs
       \/ pc \in SearchNodes /\ config = DefaultConfig /\ state \in SearchInputs
       \/ pc = "lightrag_retrieval" /\ config = DefaultConfig /\ state \in RetrievalInputs
       \/ /\ pc = "quality_assessment"
          /\ config \in [CONFIDENCE_THRESHOLD : UnitBaseThresholds, TAVILY_API_KEY : {TRUE}]
          /\ state \in GateInputs
       \/ /\ pc = "web_search"
          /\ config \in [CONFIDENCE_THRESHOLD : {H(70)}, TAVILY_API_KEY : BOOLEAN]
          /\ state \in WebInputs
       \/ pc = "answer_generation" /\ config = DefaultConfig /\ state \in AnswerInputs

Returned ==
    /\ pc' = "returned"
    /\ UNCHANGED <<config, status, route, result, runs, conc, utilVars>>

UnitQueryAnalysis ==
    /\ status = "unit" /\ pc = "query_analysis"
    /\ \E llm \in ClassifierOutcomes(CanonicalModes \cup LegacyModes, UnitEntityLists) :
          Call("query_analysis", query_analysis_node(state, llm), llm)
    /\ Returned

UnitStrategyRoute ==
    /\ status = "unit" /\ pc = "strategy_route"
    /\ Call("strategy_route", strategy_route_node(state), "none")
    /\ Returned

UnitSearch ==
    /\ status = "unit" /\ pc \in SearchNodes
    /\ \E backend \in BackendOutcomes(state.key_entities, UnitContentLengths, UnitIndicatorScores) :
          Call(pc, search_node(pc, state, backend), backend)
    /\ Returned

UnitLightragRetrieval ==
    /\ status = "unit" /\ pc = "lightrag_retrieval"
    /\ \E backend \in BackendOutcomes(state.key_entities, UnitContentLengths, UnitIndicatorScores) :
          Call("lightrag_retrieval", lightrag_retrieval_node(state, backend), backend)
    /\ Returned

UnitQualityAssessment ==
    /\ status = "unit" /\ pc = "quality_assessment"
    /\ Call("quality_assessment", quality_assessment_node(state), "none")
    /\ Returned

UnitWebSearch ==
    /\ status = "unit" /\ pc = "web_search"
    /\ \E resp \in ProviderResponses :
          Call("web_search", web_search_node(state, resp), resp)
    /\ Returned

UnitAnswerGeneration ==
    /\ status = "unit" /\ pc = "answer_generation"
    /\ \E llm \in LLMOutcomes :
          Call("answer_generation", answer_generation_node(state, llm), llm)
    /\ Returned

UnitNext == UnitQueryAnalysis \/ UnitStrategyRoute \/ UnitSearch \/ UnitLightragRetrieval
            \/ UnitQualityAssessment \/ UnitWebSearch \/ UnitAnswerGeneration

SpecNode == UnitInit /\ [][UnitNext]_vars

\* workflow runs and single node calls side by side
SpecAll == (Init \/ UnitInit) /\ [][Next \/ UnitNext]_vars

-----------------------------------------------------------------------------
(* Two query_async calls in flight on the same thread_id.  ainvoke loads the *)
(* thread's latest checkpoint into the run's own channels, applies the input, *)
(* and after every stage saves the run's channels as the thread's latest      *)
(* checkpoint; the event loop switches between the two calls at every await,  *)
(* that is between stages.  Nothing in query_async, _compile_graph or         *)
(* get_workflow takes a lock per thread_id.                                   *)

ConcRuns == {"A", "B"}
Other(r) == IF r = "A" THEN "B" ELSE "A"
InFlight(c, r) == c.at[r] \in Nodes \cup {"END"}

\* the collaborator outcomes of a stage
ConcOutcomes(node) ==
    CASE node = "query_analysis" ->
            {[kind |-> "ok", query_type |-> "FACTUAL", lightrag_mode |-> "local",
              key_entities |-> <<>>],
             [kind |-> "invalid_output", query_type |-> ABSENT, lightrag_mode |-> ABSENT,
              key_entities |-> <<>>]}
      [] node \in SearchNodes ->
            {[kind |-> "fail"],
             [kind |-> "ok", content |-> 900, indicator |-> H(60), matched |-> <<>>]}
      [] node = "web_search" -> {[kind |-> "ok", n |-> 2, valid |-> 2]}
      [] node = "answer_generation" -> {"ok"}
      [] OTHER -> {"none"}

\* the patch the node returns
NodePatch(node, s, outcome) ==
    CASE node = "query_analysis" -> query_analysis_node(s, outcome)
      [] node = "strategy_route" -> strategy_route_node(s)
      [] node \in SearchNodes -> search_node(node, s, outcome)
      [] node = "quality_assessment" -> quality_assessment_node(s)
      [] node = "web_search" -> web_search_node(s, outcome)
      [] node = "answer_generation" -> answer_generation_node(s, outcome)

ConcInit ==
    /\ config = DefaultConfig
    /\ state = EmptyState /\ streamed = EmptyState
    /\ pc = "idle" /\ status = "concurrent"
    /\ route = <<>> /\ last = NoCall /\ result = NoResult /\ runs = 0
    /\ conc = [ checkpoint |-> EmptyState,
                own |-> [r \in ConcRuns |-> EmptyState],
                at |-> [r \in ConcRuns |-> "idle"],
                behind |-> [r \in ConcRuns |-> FALSE],
                writer |-> "none",
                clobbered |-> FALSE ]
    /\ retry = NoRetry
    /\ breaker = NoBreaker
    /\ singleton = NoSingleton
    /\ debug = NoDebug

\* a checkpoint write of run r: the other run, if in flight, is now behind the thread
SaveCheckpoint(r, s, position) ==
    [ conc EXCEPT !.checkpoint = s,
                  !.own[r] = s,
                  !.at[r] = position,
                  !.behind[Other(r)] = InFlight(conc, Other(r)),
                  !.writer = r,
                  !.clobbered = @ \/ conc.behind[r] ]

\* query_async lines 439-452, no lock taken: the checkpoint is loaded, the input applied
ConcSubmit(r) ==
    /\ status = "concurrent"
    /\ conc.at[r] = "idle"
    /\ \E words \in RunQueryWords :
          conc' = [ SaveCheckpoint(r, Merge(conc.checkpoint, [user_query |-> words]),
                                   "query_analysis") EXCEPT !.behind[r] = FALSE ]
    /\ UNCHANGED <<flowVars, utilVars>>

\* one stage of run r, on the run's own channels
ConcStage(r) ==
    /\ status = "concurrent"
    /\ conc.at[r] \in Nodes
    /\ \E outcome \in ConcOutcomes(conc.at[r]) :
          LET s == Merge(conc.own[r], NodePatch(conc.at[r], conc.own[r], outcome))
          IN  conc' = SaveCheckpoint(r, s, _add_edges(conc.at[r], s))
    /\ UNCHANGED <<flowVars, utilVars>>

ConcReturn(r) ==
    /\ status = "concurrent"
    /\ conc.at[r] = "END"
    /\ conc' = [conc EXCEPT !.at[r] = "done"]
    /\ UNCHANGED <<flowVars, utilVars>>

ConcNext == \E r \in ConcRuns : ConcSubmit(r) \/ ConcStage(r) \/ ConcReturn(r)

SpecConc == ConcInit /\ [][ConcNext]_vars

-----------------------------------------------------------------------------
(* utils/error_handling.py: RetryHandler                                   *)

MaxRetries == 2

RetryableTypes == {"NetworkError", "ExternalServiceError", "ConnectionError"}
ExceptionTypes == {"NetworkError", "ConnectionError", "ValueError"}

\* what one invocation of func does: it returns a value or raises an exception; both
\* carry the number of the invocation that produced them
FuncOutcomes(n) ==
    {[kind |-> "return", type |-> "value", call |-> n]}
    \cup {[kind |-> "raise", type |-> t, call |-> n] : t \in ExceptionTypes}

\* every exception taken as retryable
IsRetryable_all(handler, outcome) == TRUE

\* except self.retry_exceptions (line 391)
IsRetryable(handler, outcome) == outcome.type \in handler.retry_exceptions

\* RetryHandler(max_retries, backoff_factor, retry_exceptions): retry_exceptions
\* defaults to the three network exception types when none (or an empty tuple) is given
RetryInit ==
    /\ config = DefaultConfig
    /\ state = EmptyState /\ streamed = EmptyState
    /\ pc = "idle" /\ status = "retry"
    /\ route = <<>> /\ last = NoCall /\ result = NoResult /\ runs = 0
    /\ conc = NoConc
    /\ \E m \in 0..MaxRetries, b \in {1, 2}, given \in {{}, {"ValueError"}} :
          retry = [ max_retries |-> m,
                    backoff_factor |-> b,
                    retry_exceptions |-> IF given = {} THEN RetryableTypes ELSE given,
                    pc |-> "loop",
                    attempt |-> 0,
                    calls |-> <<>>,
                    last_exception |-> "none",
                    slept |-> 0,
                    returned |-> "none",
                    raised |-> "none" ]
    /\ breaker = NoBreaker
    /\ singleton = NoSingleton
    /\ debug = NoDebug

\* one iteration of the for loop (lines 388-404): the call, and what follows from it
RetryAttempt ==
    /\ status = "retry"
    /\ retry.pc = "loop"
    /\ \E outcome \in FuncOutcomes(Len(retry.calls) + 1) :
          LET called == [retry EXCEPT !.calls = Append(@, outcome)]
          IN  retry' =
                IF outcome.kind = "return"
                THEN [called EXCEPT !.pc = "returned", !.returned = outcome]
                ELSE IF IsRetryable(retry, outcome)
                THEN IF retry.attempt = retry.max_retries
                     \* break, then raise last_exception (line 407)
                     THEN [called EXCEPT !.pc = "raised", !.last_exception = outcome,
                                         !.raised = outcome]
                     ELSE [called EXCEPT !.last_exception = outcome,
                                         !.slept = @ + retry.backoff_factor ^ retry.attempt,
                                         !.attempt = @ + 1]
                ELSE [called EXCEPT !.pc = "raised", !.raised = outcome]
    /\ UNCHANGED <<flowVars, conc, breaker, singleton, debug>>

RetryNext == RetryAttempt

SpecRetry == RetryInit /\ [][RetryNext]_vars

-----------------------------------------------------------------------------
(* utils/error_handling.py: CircuitBreaker                                 *)

MaxClock == 3      \* the clock runs from 1 to MaxClock
MaxCalls == 4      \* call() is entered at most MaxCalls times

\* except self.expected_exception (line 445): "Exception" catches every exception type
IsExpected(b, type) == b.expected_exception = "Exception" \/ b.expected_exception = type

\* the clock's fact: recovery_timeout has passed since the last counted failure
Elapsed(b) == b.last_failure_time # 0 /\ b.now - b.last_failure_time >= b.recovery_timeout

\* a breaker that retries at every call
_should_attempt_reset_always(b) == TRUE

\* last_failure_time is None (0 here) until the first counted failure
_should_attempt_reset(b) ==
    b.last_failure_time # 0 /\ b.now - b.last_failure_time >= b.recovery_timeout

_on_success(b) == [b EXCEPT !.failure_count = 0, !.state = "closed"]

_on_failure(b) ==
    LET count == b.failure_count + 1
    IN  [b EXCEPT !.failure_count = count,
                  !.last_failure_time = b.now,
                  !.state = IF count >= b.failure_threshold THEN "open" ELSE @]

\* CircuitBreaker(failure_threshold, recovery_timeout, expected_exception) and the
\* threads that call it
BreakerInit(threads) ==
    /\ config = DefaultConfig
    /\ state = EmptyState /\ streamed = EmptyState
    /\ pc = "idle" /\ status = "breaker"
    /\ route = <<>> /\ last = NoCall /\ result = NoResult /\ runs = 0
    /\ conc = NoConc /\ retry = NoRetry
    /\ singleton = NoSingleton /\ debug = NoDebug
    /\ \E threshold \in {1, 2}, timeout \in {1, 2},
          expected \in {"Exception", "NetworkError"} :
          breaker = [ failure_threshold |-> threshold,
                      recovery_timeout |-> timeout,
                      expected_exception |-> expected,
                      failure_count |-> 0,
                      last_failure_time |-> 0,
                      state |-> "closed",
                      now |-> 1,
                      at |-> [t \in threads |-> "idle"],
                      admitted |-> [t \in threads |-> "none"],
                      entered |-> 0,
                      failing |-> 0,
                      counted |-> 0,
                      event |-> [kind |-> "none"] ]

\* lines 429-440: the state check, up to the point where func is about to be called
BreakerEnter(t) ==
    /\ status = "breaker"
    /\ breaker.at[t] = "idle"
    /\ breaker.entered < MaxCalls
    /\ LET before == [state |-> breaker.state, elapsed |-> Elapsed(breaker)]
           reject == breaker.state = "open" /\ ~_should_attempt_reset(breaker)
           seen == IF breaker.state = "open" THEN "half-open" ELSE breaker.state
       IN  breaker' =
             IF reject
             THEN [breaker EXCEPT !.entered = @ + 1,
                                  !.event = [kind |-> "rejected", thread |-> t,
                                             before |-> before]]
             ELSE [breaker EXCEPT !.entered = @ + 1,
                                  !.state = seen,
                                  !.at[t] = "in_func",
                                  !.admitted[t] = seen,
                                  !.event = [kind |-> "invoked", thread |-> t,
                                             before |-> before]]
    /\ UNCHANGED <<flowVars, conc, retry, singleton, debug>>

\* lines 441-447: func returns or raises, then _on_success, _on_failure or neither
BreakerFinish(t) ==
    /\ status = "breaker"
    /\ breaker.at[t] = "in_func"
    /\ \E outcome \in {"return"} \cup ExceptionTypes :
          LET after == IF outcome = "return" THEN _on_success(breaker)
                       ELSE IF IsExpected(breaker, outcome) THEN _on_failure(breaker)
                       ELSE breaker
          IN  breaker' = [after EXCEPT
                  !.at[t] = "idle",
                  !.admitted[t] = "none",
                  !.failing = IF outcome = "return" THEN 0 ELSE @ + 1,
                  !.counted = IF outcome # "return" /\ IsExpected(breaker, outcome)
                              THEN @ + 1 ELSE 0,
                  !.event = [kind |-> IF outcome = "return" THEN "returned" ELSE "raised",
                             thread |-> t, outcome |-> outcome]]
    /\ UNCHANGED <<flowVars, conc, retry, singleton, debug>>

\* time.time() advances
BreakerTick ==
    /\ status = "breaker"
    /\ breaker.now < MaxClock
    /\ breaker' = [breaker EXCEPT !.now = @ + 1]
    /\ UNCHANGED <<flowVars, conc, retry, singleton, debug>>

BreakerNext ==
    \/ \E t \in DOMAIN breaker.at : BreakerEnter(t) \/ BreakerFinish(t)
    \/ BreakerTick

\* one caller at a time
SpecBreaker == BreakerInit({"t1"}) /\ [][BreakerNext]_vars

\* callers on two threads
SpecBreakerThreads == BreakerInit({"t1", "t2"}) /\ [][BreakerNext]_vars

-----------------------------------------------------------------------------
(* core/enhanced_workflow.py: get_workflow                                 *)

GetThreads == {"t1", "t2", "t3"}

\* _workflow_instance is None (0 here); each thread is about to call get_workflow()
GetInit ==
    /\ config = DefaultConfig
    /\ state = EmptyState /\ streamed = EmptyState
    /\ pc = "idle" /\ status = "get_workflow"
    /\ route = <<>> /\ last = NoCall /\ result = NoResult /\ runs = 0
    /\ conc = NoConc /\ retry = NoRetry /\ breaker = NoBreaker /\ debug = NoDebug
    /\ singleton = [ instance |-> 0,
                     at |-> [t \in GetThreads |-> "idle"],
                     returned |-> [t \in GetThreads |-> 0],
                     constructed |-> 0 ]

\* line 1091: if _workflow_instance is None
GetCheck(t) ==
    /\ status = "get_workflow"
    /\ singleton.at[t] = "idle"
    /\ singleton' = [singleton EXCEPT
          !.at[t] = IF singleton.instance = 0 THEN "constructing" ELSE "returning"]
    /\ UNCHANGED <<flowVars, conc, retry, breaker, debug>>

\* line 1093: IntelligentQAWorkflow() builds and compiles a graph with its own
\* MemorySaver, then the global is assigned
GetConstruct(t) ==
    /\ status = "get_workflow"
    /\ singleton.at[t] = "constructing"
    /\ singleton' = [singleton EXCEPT !.constructed = @ + 1,
                                      !.instance = singleton.constructed + 1,
                                      !.at[t] = "returning"]
    /\ UNCHANGED <<flowVars, conc, retry, breaker, debug>>

\* line 1094: return _workflow_instance
GetReturn(t) ==
    /\ status = "get_workflow"
    /\ singleton.at[t] = "returning"
    /\ singleton' = [singleton EXCEPT !.returned[t] = singleton.instance,
                                      !.at[t] = "done"]
    /\ UNCHANGED <<flowVars, conc, retry, breaker, debug>>

GetNext == \E t \in GetThreads : GetCheck(t) \/ GetConstruct(t) \/ GetReturn(t)

SpecGet == GetInit /\ [][GetNext]_vars

-----------------------------------------------------------------------------
(* core/enhanced_workflow.py: debug_query_async, enhanced_debug_query_async *)

\* lines 519-546 (684-723): the input is written over the thread's state and the graph
\* is started through astream
DebugSubmit ==
    /\ status = "idle"
    /\ debug.execution = 0
    /\ \E words \in RunQueryWords : state' = Merge(state, [user_query |-> words])
    /\ pc' = "query_analysis"
    /\ status' = "running"
    /\ route' = <<>>
    /\ last' = NoCall
    /\ result' = NoResult
    /\ streamed' = EmptyState
    /\ runs' = runs + 1
    /\ debug' = [execution |-> 1, words |-> state'.user_query]
    /\ UNCHANGED <<config, conc, retry, breaker, singleton>>

\* line 600 (755): the stream is exhausted and the graph is started again with the
\* same input through ainvoke
DebugInvoke ==
    /\ status = "running" /\ pc = "END"
    /\ debug.execution = 1
    /\ state' = Merge(state, [user_query |-> debug.words])
    /\ pc' = "query_analysis"
    /\ route' = <<>>
    /\ last' = NoCall
    /\ debug' = [ execution |-> 2, words |-> debug.words,
                  stream_route |-> route,
                  stream_answer |-> state.final_answer,
                  stream_confidence |-> state.answer_confidence ]
    /\ UNCHANGED <<config, status, result, runs, streamed, conc, retry, breaker, singleton>>

\* lines 601-606 (756-762): final_result is read from the state ainvoke returned
DebugReturn ==
    /\ status = "running" /\ pc = "END"
    /\ debug.execution = 2
    /\ status' = "done"
    /\ pc' = "idle"
    /\ result' = [ answer |-> state.final_answer,
                   sources |-> state.sources,
                   quality_score |-> state.confidence_score,
                   answer_confidence |-> state.answer_confidence ]
    /\ UNCHANGED <<config, state, route, last, runs, streamed, conc, utilVars>>

DebugNext == DebugSubmit \/ Stage \/ DebugInvoke \/ DebugReturn

SpecDebug == Init /\ [][DebugNext]_vars

-----------------------------------------------------------------------------
(* Properties                                                              *)

InRoute(node) == \E i \in 1..Len(route) : route[i] = node
IsPrefix(p, q) == Len(p) <= Len(q) /\ SubSeq(q, 1, Len(p)) = p
Terminal == {"done", "error", "cancelled"}
Canonical == [FACTUAL |-> "local", RELATIONAL |-> "global", ANALYTICAL |-> "hybrid"]
Executor == [local |-> "local_search", global |-> "global_search", hybrid |-> "hybrid_search"]

AllowedRoutes ==
    UNION {{ <<"query_analysis", "strategy_route", n, "quality_assessment",
               "answer_generation">>,
             <<"query_analysis", "strategy_route", n, "quality_assessment",
               "web_search", "answer_generation">> } : n \in SearchNodes}

\* C1: in every run the stages execute one at a time in the order query_analysis,
\* strategy_route, exactly one retrieval executor, quality_assessment, optionally
\* web_search, answer_generation, END: the executed stages and the stage about to run
\* are always a prefix of one of the allowed orders, a finished run executed exactly one
\* of them, and no stage occurs twice.
C1_StageOrder ==
    /\ \E r \in AllowedRoutes : IsPrefix(route, r)
    /\ (status = "running" /\ pc \in Nodes) =>
          \E r \in AllowedRoutes : IsPrefix(Append(route, pc), r)
    /\ (status = "running" /\ pc = "END") => route \in AllowedRoutes
    /\ status = "done" => route \in AllowedRoutes
    /\ \A i, j \in 1..Len(route) : route[i] = route[j] => i = j

C1_Witness == status = "done" /\ Len(route) = 6 /\ route[3] = "global_search"

\* C2: every started run eventually reaches a terminal status (done, error or
\* cancelled) whatever the classifier, the retrieval backend, the search provider and
\* the answer LLM return or raise, and a run that is done executed 5 stages when it
\* did not escalate and 6 when it did.
C2_Terminates ==
    /\ (status = "running") ~> (status \in Terminal)
    /\ [](status = "done" => Len(route) = IF InRoute("web_search") THEN 6 ELSE 5)

C2_Witness == status = "done" /\ runs = 2 /\ Len(route) = 5

\* C3: for every query_type in {FACTUAL, RELATIONAL, ANALYTICAL} and every
\* lightrag_mode given to strategy_route_node, the returned lightrag_mode is the
\* canonical mode of the query type and the returned next_node is that mode's executor.
C3_RouterCanonical ==
    (last.node = "strategy_route" /\ last.in.query_type \in QueryTypes) =>
        /\ last.out.lightrag_mode = Canonical[last.in.query_type]
        /\ last.out.next_node = Executor[Canonical[last.in.query_type]]

C3_Witness ==
    /\ last.node = "strategy_route"
    /\ last.in.query_type = "FACTUAL"
    /\ last.in.lightrag_mode = "mix"
    /\ last.out.next_node = "local_search"

\* C4: the route decision returned by strategy_route_node has auto_corrected = true if
\* and only if the input lightrag_mode differed from the canonical mode of the input
\* query_type.
C4_AutoCorrected ==
    (last.node = "strategy_route" /\ last.in.query_type \in QueryTypes) =>
        (last.out.route_decision.auto_corrected
            <=> last.in.lightrag_mode # Canonical[last.in.query_type])

\* a mismatching mode was overwritten and auto_corrected is false
C4_Divergence ==
    /\ last.node = "strategy_route"
    /\ last.in.query_type = "FACTUAL"
    /\ last.in.lightrag_mode = "global"
    /\ last.out.lightrag_mode = "local"
    /\ ~last.out.route_decision.auto_corrected

\* C5: in every run the web_search stage executes if and only if the
\* quality_assessment stage of that run set need_web_search to true, and
\* web_search_node called with need_web_search false returns web_results = [] without
\* calling the search provider.
C5_EscalationOnlyWhenNeeded ==
    /\ (status = "running" /\ last.node = "quality_assessment") =>
          (pc = "web_search" <=> last.out.need_web_search)
    /\ (status = "running" /\ pc = "web_search") =>
          (last.node = "quality_assessment" /\ last.out.need_web_search)
    /\ (status \in {"running", "done"} /\ InRoute("quality_assessment")
          /\ pc # "web_search") =>
          (InRoute("web_search") <=> state.need_web_search)
    /\ (last.node = "web_search" /\ ~last.in.need_web_search) =>
          (last.out.web_results = 0 /\ ~last.out.called)

C5_Witness ==
    /\ status = "unit"
    /\ last.node = "web_search"
    /\ ~last.in.need_web_search
    /\ last.ext.kind = "ok" /\ last.ext.valid > 0
    /\ config.TAVILY_API_KEY

\* C6: for every result of quality_assessment_node, need_web_search is true exactly
\* when the returned confidence_score is strictly below the returned
\* confidence_threshold, on the scored path and on the retrieval-failed path, for
\* every configured base threshold.
C6_GateExact ==
    last.node = "quality_assessment" =>
        (last.out.need_web_search
            <=> last.out.confidence_score < last.out.confidence_threshold)

\* the retrieval-failed path with a base threshold of 0.0: 0.0 is not below 0.0, yet
\* the node escalates
C6_Divergence ==
    /\ last.node = "quality_assessment"
    /\ ~last.in.retrieval_success
    /\ last.out.confidence_score = 0
    /\ last.out.confidence_threshold = 0
    /\ last.out.need_web_search

\* C7: when retrieval_success is false quality_assessment_node returns
\* confidence_score = 0.0, need_web_search = true and the reason naming the retrieval
\* failure, regardless of retrieval_score, content, key entities and query type.
C7_ShortCircuit ==
    (last.node = "quality_assessment" /\ ~last.in.retrieval_success) =>
        /\ last.out.confidence_score = 0
        /\ last.out.need_web_search
        /\ last.out.assessment_reason = "LightRAG retrieval failed, web search needed"

C7_Witness ==
    /\ last.node = "quality_assessment"
    /\ ~last.in.retrieval_success
    /\ last.in.retrieval_score = ONE
    /\ last.in.lightrag_results.content = 800
    /\ last.in.query_type = "ANALYTICAL"
    /\ last.out.confidence_score = 0

\* the retrieval executor of the current run has executed and failed
SearchFailed ==
    /\ status \in {"running", "done"}
    /\ \E i \in 1..Len(route) : route[i] \in SearchNodes
    /\ ~state.retrieval_success

\* C8 as stated: when the retrieval executor selected by routing fails, the run is
\* aborted: it does not end done, and neither quality_assessment, web_search nor
\* answer_generation executes in that run.
C8_AbortsOnRetrievalFailure ==
    SearchFailed =>
        /\ status # "done"
        /\ ~InRoute("quality_assessment")
        /\ ~InRoute("web_search")
        /\ ~InRoute("answer_generation")

\* C8, amended: when the retrieval executor selected by routing fails (success=false
\* or an exception), the run is not aborted: quality_assessment executes and sets
\* confidence_score 0.0 and need_web_search true, web_search executes, then
\* answer_generation, and the run ends done after 6 stage executions, never in error.
C8_ContinuesAfterRetrievalFailure ==
    /\ [](SearchFailed =>
            /\ status # "error"
            /\ Len(route) = 3 => pc = "quality_assessment"
            /\ Len(route) = 4 => /\ pc = "web_search"
                                 /\ state.confidence_score = 0
                                 /\ state.need_web_search
            /\ Len(route) = 5 => pc = "answer_generation" /\ route[5] = "web_search"
            /\ Len(route) = 6 => (pc = "END" \/ status = "done")
            /\ Len(route) \in 3..6)
    /\ (SearchFailed /\ status = "running")
          ~> (SearchFailed /\ status = "done" /\ Len(route) = 6)

C8_Witness ==
    /\ SearchFailed
    /\ status = "done"
    /\ route[3] = "hybrid_search"
    /\ route[5] = "web_search"
    /\ state.web_results = 2
    /\ result.answer = LLM_TEXT

\* C9: when the LLM call of answer generation raises, answer_generation_node returns
\* an apology final_answer together with answer_confidence = 0.0 and sources = [],
\* also when the state holds retrieval content, web results and a positive
\* confidence_score.
C9_LLMFailureZeroConfidence ==
    (last.node = "answer_generation" /\ last.ext = "raise") =>
        /\ last.out.final_answer = APOLOGY
        /\ last.out.answer_confidence = 0
        /\ last.out.sources = <<>>

\* the state of test_answer_generation_failure: the apology comes with confidence 0.9
\* and the knowledge base as a source
C9_Divergence ==
    /\ last.node = "answer_generation" /\ last.ext = "raise"
    /\ last.in.lightrag_results.content = 30 /\ last.in.lightrag_results.mode = "local"
    /\ last.in.web_results = 0 /\ last.in.confidence_score = H(80)
    /\ ~last.in.retrieval_success
    /\ last.out.final_answer = APOLOGY
    /\ last.out.answer_confidence = H(90)
    /\ last.out.sources = <<"lightrag_knowledge">>

\* C10: when both the retrieval backend and the web search fail in a run, the run
\* reaches done and its result holds the apology string as answer,
\* answer_confidence = 0.0 and sources = [], whatever the LLM returns.
C10_BothFailApology ==
    (SearchFailed /\ status = "done" /\ InRoute("web_search") /\ state.web_results = 0) =>
        /\ result.answer = APOLOGY
        /\ result.answer_confidence = 0
        /\ result.sources = <<>>

\* both failed, the LLM answered: its text is the final answer
C10_Divergence ==
    /\ SearchFailed /\ status = "done" /\ InRoute("web_search")
    /\ state.web_results = 0
    /\ state.web_search_summary = "web search failed: error"
    /\ result.answer = LLM_TEXT
    /\ result.answer_confidence = 0
    /\ result.sources = <<>>

\* C11: when the classifier's LLM call fails in any way (exception on construction,
\* on invoke, or invalid structured output), query_analysis_node returns
\* query_type = ANALYTICAL and lightrag_mode = hybrid, and the run continues to
\* strategy_route.
C11_ClassifierFallback ==
    (last.node = "query_analysis" /\ last.ext.kind \in ClassifierFailures) =>
        /\ last.out.query_type = "ANALYTICAL"
        /\ last.out.lightrag_mode = "hybrid"
        /\ status = "running" => pc = "strategy_route"

C11_Witness ==
    /\ status = "running"
    /\ runs = 2
    /\ last.node = "query_analysis"
    /\ last.ext.kind = "invalid_output"
    /\ last.in.user_query = 5
    /\ state.query_type = "ANALYTICAL"
    /\ pc = "strategy_route"

\* C12: each retrieval executor (local_search_node, global_search_node,
\* hybrid_search_node, lightrag_retrieval_node), when the backend reports
\* success=false or raises, returns retrieval_success = false, retrieval_score = 0.0
\* and lightrag_results holding an error and an empty content; the exception does not
\* leave the stage.
C12_ExecutorFailureOutput ==
    (last.node \in SearchNodes \cup {"lightrag_retrieval"}
        /\ last.ext.kind \in {"fail", "raise"}) =>
        /\ ~last.out.retrieval_success
        /\ last.out.retrieval_score = 0
        /\ last.out.lightrag_results.error
        /\ last.out.lightrag_results.content = 0
        /\ ~state.retrieval_success /\ state.lightrag_results.content = 0

C12_Witness ==
    /\ status = "running" /\ runs = 2
    /\ last.node = "global_search"
    /\ last.ext.kind = "raise"
    /\ last.out.lightrag_results.error
    /\ state.retrieval_score = 0
    /\ state.final_answer = LLM_TEXT

\* the summaries that hold the word for failure
FailureSummaries == {"no API key, web search failed", "web search failed: error"}

\* C13: when the web search provider call raises, web_search_node returns
\* web_results = [] together with a web_search_summary that reports the failure
\* (holds the word for failure), and the run continues to answer_generation.
C13_ProviderFailureReported ==
    (last.node = "web_search" /\ last.in.need_web_search /\ config.TAVILY_API_KEY
        /\ last.ext.kind = "raise") =>
        /\ last.out.web_results = 0
        /\ last.out.web_search_summary \in FailureSummaries
        /\ status = "running" => pc = "answer_generation"

\* the provider raised and the summary says that nothing was found
C13_Divergence ==
    /\ status = "unit"
    /\ last.node = "web_search" /\ last.in.need_web_search /\ config.TAVILY_API_KEY
    /\ last.in.query_type = "FACTUAL"
    /\ last.ext.kind = "raise"
    /\ last.out.web_results = 0
    /\ last.out.web_search_summary = "web search found nothing"

\* the run record a consumer of query_stream_async builds from the chunks alone
StreamRecord ==
    [ answer |-> streamed.final_answer,
      sources |-> streamed.sources,
      quality_score |-> streamed.confidence_score,
      answer_confidence |-> streamed.answer_confidence,
      route_taken |-> route ]

C15_SerializedPerThread ==
    status = "concurrent" =>
        /\ ~conc.clobbered
        /\ \A r \in ConcRuns : (InFlight(conc, r) /\ conc.writer = r) => ~conc.behind[r]

\* run B finished on the state it loaded before run A wrote its answer: the thread's
\* checkpoint holds no answer although run A returned one
C15_Divergence ==
    /\ status = "concurrent"
    /\ conc.clobbered
    /\ conc.at["A"] = "done" /\ conc.own["A"].final_answer = LLM_TEXT
    /\ conc.at["B"] = "strategy_route"
    /\ conc.checkpoint.final_answer = ABSENT

\* C17: with content, key entities, query, query type and retrieval mode held fixed
\* and retrieval succeeded, raising retrieval_score never lowers the confidence_score
\* the confidence gate computes.
C17_MonotoneInRetrievalScore ==
    (last.node = "quality_assessment" /\ last.in.retrieval_success) =>
        \A raised \in UnitScores :
            raised >= last.in.retrieval_score =>
                quality_assessment_node([state EXCEPT !.retrieval_score = raised]).confidence_score
                    >= last.out.confidence_score

\* a scored result below the cap that a higher retrieval_score strictly improves
C17_Witness ==
    /\ last.node = "quality_assessment"
    /\ last.in.retrieval_success
    /\ last.in.retrieval_score = H(50)
    /\ last.in.lightrag_results.content = 200
    /\ last.out.confidence_score < ONE
    /\ quality_assessment_node([state EXCEPT !.retrieval_score = ONE]).confidence_score
          > last.out.confidence_score

\* C18: every result of quality_assessment_node carries confidence_threshold =
\* base_threshold + adjustment(query_type) clamped to [0.3, 0.9], with FACTUAL at or
\* above RELATIONAL at or above ANALYTICAL, on the retrieval-succeeded path and on the
\* retrieval-failed path alike.
C18_ThresholdDynamicOnBothPaths ==
    last.node = "quality_assessment" =>
        /\ last.out.confidence_threshold = _get_dynamic_threshold(state)
        /\ last.out.confidence_threshold >= H(30)
        /\ last.out.confidence_threshold <= H(90)
        /\ _get_dynamic_threshold([state EXCEPT !.query_type = "FACTUAL"])
              >= _get_dynamic_threshold([state EXCEPT !.query_type = "RELATIONAL"])
        /\ _get_dynamic_threshold([state EXCEPT !.query_type = "RELATIONAL"])
              >= _get_dynamic_threshold([state EXCEPT !.query_type = "ANALYTICAL"])

\* the retrieval-failed path of a FACTUAL query with base threshold 0.7: the result
\* carries the base 0.70, not 0.75
C18_Divergence ==
    /\ last.node = "quality_assessment"
    /\ ~last.in.retrieval_success
    /\ last.in.query_type = "FACTUAL"
    /\ config.CONFIDENCE_THRESHOLD = H(70)
    /\ last.out.confidence_threshold = H(70)
    /\ _get_dynamic_threshold(state) = H(75)

\* the answer confidence _calculate_answer_confidence gives when the additional-source
\* bonus is granted exactly for two distinct source kinds (retrieval and web)
ConfidenceByKinds(s) ==
    LET context_info == _collect_context_information(s)
        kinds == (IF context_info.has_lightrag THEN 1 ELSE 0)
                 + (IF context_info.web_info > 0 THEN 1 ELSE 0)
    IN  _calculate_answer_confidence(s, [context_info EXCEPT !.total_sources = kinds])

\* C19: the answer confidence receives the +0.10 additional-source bonus exactly when
\* at least two distinct source kinds (retrieval and web) contributed context; several
\* web results without any retrieval content do not earn it.
C19_BonusForTwoKinds ==
    last.node = "answer_generation" =>
        last.out.answer_confidence = ConfidenceByKinds(state)

\* two web results and no retrieval content, confidence_score 0.5: the answer
\* confidence is 0.5 + 0.10 (web) + 0.10 (additional sources) = 0.70, not 0.60
C19_Divergence ==
    /\ last.node = "answer_generation" /\ last.ext = "ok"
    /\ last.in.lightrag_results.content = 0
    /\ last.in.web_results = 2
    /\ last.in.confidence_score = H(50)
    /\ ~last.in.retrieval_success
    /\ last.out.answer_confidence = H(70)
    /\ ConfidenceByKinds(state) = H(60)

\* the executor the degradation rule names for a mode outside local/global/hybrid
DegradedExecutor(lightrag_mode) ==
    CASE lightrag_mode = "naive" -> "local_search"
      [] lightrag_mode = "mix" -> "hybrid_search"
      [] OTHER -> "local_search"

\* C20: for every query type, a run whose classifier produced the legacy mode naive is
\* dispatched to local_search, one whose mode is mix is dispatched to hybrid_search,
\* and one whose mode is any unrecognized value is dispatched to local_search.
C20_LegacyModesDegrade ==
    /\ ( /\ last.node = "strategy_route"
         /\ last.in.query_type \in QueryTypes
         /\ last.in.lightrag_mode \in AnyModes \ (CanonicalModes \cup {ABSENT}) )
       => _route_to_search_node(state) = DegradedExecutor(last.in.lightrag_mode)
    /\ ( /\ last.node = "query_analysis"
         /\ last.ext.kind = "ok"
         /\ last.ext.lightrag_mode \in AnyModes \ (CanonicalModes \cup {ABSENT}) )
       => _route_to_search_node(Merge(state, strategy_route_node(state)))
             = DegradedExecutor(last.ext.lightrag_mode)

\* a RELATIONAL query with mode naive: the mode is overwritten with global and the
\* dispatch goes to global_search
C20_Divergence ==
    /\ last.node = "strategy_route"
    /\ last.in.query_type = "RELATIONAL"
    /\ last.in.lightrag_mode = "naive"
    /\ last.out.lightrag_mode = "global"
    /\ last.out.next_node = "global_search"
    /\ _route_to_search_node(state) = "global_search"

\* C21: RetryHandler.retry_with_backoff invokes the function at most max_retries + 1
\* times: it returns the value of the first successful attempt without calling again,
\* re-raises a non-retryable exception after that single attempt without retrying, and
\* after max_retries + 1 retryable failures raises the last exception.
C21_RetryBounded ==
    status = "retry" =>
        LET n == Len(retry.calls)
            retryable(i) == /\ retry.calls[i].kind = "raise"
                            /\ retry.calls[i].type \in retry.retry_exceptions
        IN  /\ n <= retry.max_retries + 1
            /\ \A i \in 1..(n - 1) : retryable(i)
            /\ retry.pc = "loop" => \A i \in 1..n : retryable(i)
            /\ retry.pc = "returned" =>
                  retry.calls[n].kind = "return" /\ retry.returned = retry.calls[n]
            /\ retry.pc = "raised" =>
                  /\ retry.calls[n].kind = "raise"
                  /\ retry.raised = retry.calls[n]
                  /\ retryable(n) => n = retry.max_retries + 1
            /\ (n = retry.max_retries + 1 /\ retryable(n)) => retry.pc = "raised"

\* two retryable failures, then the third invocation's exception is raised
C21_Witness ==
    /\ status = "retry"
    /\ retry.max_retries = 2
    /\ retry.pc = "raised"
    /\ Len(retry.calls) = 3
    /\ retry.calls[1].type = "NetworkError" /\ retry.calls[2].type = "ConnectionError"
    /\ retry.raised = [kind |-> "raise", type |-> "NetworkError", call |-> 3]
    /\ retry.slept = 3

Trials == {t \in DOMAIN breaker.at :
              breaker.at[t] = "in_func" /\ breaker.admitted[t] = "half-open"}

\* C27: once recovery_timeout has elapsed, an open CircuitBreaker admits exactly one
\* trial call: that call moves the breaker to half-open and its outcome moves it to
\* closed (success) or back to open (failure) before any further call can reach the
\* wrapped function, for every exception type the function raises and for callers on
\* several threads.
C27_SingleTrial ==
    status = "breaker" =>
        /\ breaker.state = "half-open" => Cardinality(Trials) = 1
        /\ Cardinality(Trials) <= 1

\* two threads are inside the wrapped function as trial calls of the same half-open
\* breaker
C27_Divergence ==
    /\ status = "breaker"
    /\ breaker.state = "half-open"
    /\ breaker.at["t1"] = "in_func" /\ breaker.admitted["t1"] = "half-open"
    /\ breaker.at["t2"] = "in_func" /\ breaker.admitted["t2"] = "half-open"

\* C23: for a FACTUAL query whose retrieval succeeded with retrieval_score 0.8 and
\* whose key entities all occur in the content, quality_assessment_node returns
\* confidence_score > 0.5 and need_web_search = false, also when the content is shorter
\* than 50 characters and the state records no lightrag_mode.
C23_HighConfidenceNoEscalation ==
    ( /\ last.node = "quality_assessment"
      /\ config = DefaultConfig
      /\ last.in.query_type = "FACTUAL"
      /\ last.in.retrieval_success
      /\ last.in.retrieval_score = H(80)
      /\ last.in.lightrag_results.content > 0
      /\ Len(last.in.key_entities) > 0
      /\ \A i \in 1..Len(last.in.key_entities) : last.in.lightrag_results.matched[i].full )
    => /\ last.out.confidence_score > H(50)
       /\ ~last.out.need_web_search

\* the state of the test under the default base threshold 0.7: confidence 0.62 is
\* below the FACTUAL threshold 0.75 and the gate escalates
C23_Divergence ==
    /\ last.node = "quality_assessment"
    /\ config = DefaultConfig
    /\ last.in.query_type = "FACTUAL"
    /\ last.in.lightrag_mode = ABSENT
    /\ last.in.retrieval_success
    /\ last.in.retrieval_score = H(80)
    /\ last.in.lightrag_results.content = 30
    /\ last.in.key_entities = <<1>>
    /\ last.in.lightrag_results.matched[1].full
    /\ last.out.confidence_score = H(62)
    /\ last.out.confidence_threshold = H(75)
    /\ last.out.need_web_search

\* C24: in every run in which quality_assessment sets need_web_search to false and
\* retrieval returned content, answer_generation uses no web evidence: sources holds
\* exactly one retrieval-kind entry and no web entry, also when an earlier run on the
\* same thread_id executed web_search and left its web_results in the thread's
\* checkpoint.
C24_NoWebEvidenceWithoutEscalation ==
    ( /\ status \in {"running", "done"}
      /\ last.node = "answer_generation"
      /\ ~InRoute("web_search")
      /\ ~state.need_web_search
      /\ state.lightrag_results.content > 0 )
    => state.sources = <<"lightrag_knowledge">>

\* the second run on the thread did not escalate, yet its sources list the two web
\* results the first run fetched
C24_Divergence ==
    /\ status = "done"
    /\ runs = 2
    /\ route = <<"query_analysis", "strategy_route", "local_search",
                 "quality_assessment", "answer_generation">>
    /\ ~state.need_web_search
    /\ state.lightrag_results.content = 900
    /\ state.web_results = 2
    /\ state.sources = <<"lightrag_knowledge", "web_search", "web_search">>

\* C25: the route_taken list returned by query_async equals, in order, the sequence of
\* stages that actually executed in that run: it always starts with query_analysis,
\* strategy_route, the executed retrieval stage and quality_assessment, contains
\* web_search exactly when web_search ran, and ends with answer_generation.
C25_RouteTakenIsExecutedRoute ==
    status = "done" =>
        /\ result.route_taken = route
        /\ result.route_taken \in AllowedRoutes

\* a second run on the thread that did not escalate, after a first run that did
C25_Witness ==
    /\ status = "done"
    /\ runs = 2
    /\ state.web_results = 2
    /\ result.route_taken = <<"query_analysis", "strategy_route", "hybrid_search",
                              "quality_assessment", "answer_generation">>
    /\ route = result.route_taken

\* the number of web entries in a sources list
WebEntries(sources) == Cardinality({i \in 1..Len(sources) : sources[i] = "web_search"})

\* C26: every web entry listed in the sources of a run corresponds to a web result
\* whose content was placed in the synthesis prompt of that run; no web result is
\* attributed as a source without having been used.
C26_WebSourcesWereUsed ==
    last.node = "answer_generation" =>
        WebEntries(last.out.sources) <= last.out.prompt_web

\* four web results: the prompt holds the first three, the sources list all four
C26_Divergence ==
    /\ last.node = "answer_generation" /\ last.ext = "ok"
    /\ last.in.web_results = 4
    /\ last.out.prompt_web = 3
    /\ WebEntries(last.out.sources) = 4

\* C28: get_workflow() constructs at most one IntelligentQAWorkflow (and so one
\* checkpoint store) per process: every call, including first calls made concurrently
\* from different threads, returns the same instance.
C28_OneInstance ==
    status = "get_workflow" =>
        /\ singleton.constructed <= 1
        /\ \A t, u \in GetThreads :
              (singleton.returned[t] # 0 /\ singleton.returned[u] # 0)
                  => singleton.returned[t] = singleton.returned[u]

\* two first calls overlapped: two workflows were constructed and the two callers hold
\* different instances
C28_Divergence ==
    /\ status = "get_workflow"
    /\ singleton.constructed = 2
    /\ singleton.at["t1"] = "done" /\ singleton.at["t2"] = "done"
    /\ singleton.returned["t1"] = 1
    /\ singleton.returned["t2"] = 2

\* how often a stage was executed for the debug query
Executions(node) ==
    Cardinality({i \in 1..Len(route) : route[i] = node})
    + (IF debug.execution = 2
       THEN Cardinality({i \in 1..Len(debug.stream_route) : debug.stream_route[i] = node})
       ELSE 0)

\* C30: a debug query (debug_query_async or enhanced_debug_query_async) executes each
\* workflow stage, and therefore each LLM, retrieval and web search call, at most once
\* for the query it was given, and the final_result it reports is the outcome of that
\* single execution.
C30_DebugExecutesOnce ==
    debug.execution > 0 =>
        /\ \A node \in Nodes : Executions(node) <= 1
        /\ status = "done" => debug.execution = 1

\* both executions ran five stages; the streamed one produced the LLM's answer, the
\* reported final_result is the apology of the second
C30_Divergence ==
    /\ status = "done"
    /\ debug.execution = 2
    /\ Len(debug.stream_route) = 5 /\ Len(route) = 5
    /\ Executions("query_analysis") = 2
    /\ Executions("answer_generation") = 2
    /\ debug.stream_answer = LLM_TEXT
    /\ result.answer = APOLOGY

\* ms matches no more than the content of the state does: per entity no more words,
\* and the whole entity only if the state's content has it whole
MatchesLess(ms, matched) ==
    \A i \in 1..Len(matched) :
        /\ ms[i].k <= matched[i].k
        /\ ms[i].full => matched[i].full

\* C29: the entity_coverage factor of the confidence gate is monotone: with the list
\* of expected entities fixed, content that matches more entities, or more words of an
\* entity, never yields a lower entity_coverage value than content that matches fewer.
C29_EntityCoverageMonotone ==
    ( /\ last.node = "quality_assessment"
      /\ last.in.retrieval_success
      /\ last.in.lightrag_results.content > 0
      /\ Len(last.in.key_entities) > 0 )
    => \A ms \in AllMatches(last.in.key_entities) :
          MatchesLess(ms, last.in.lightrag_results.matched) =>
              _evaluate_entity_coverage([state EXCEPT !.lightrag_results.matched = ms])
                  <= last.out.confidence_breakdown.entity_coverage

\* entities of one, five and two words: the whole first, two words of the second and
\* one of the third give coverage 0.5133 and the factor 0.6633; with only one word of
\* the second the coverage is 0.4733 and the factor 0.6733
C29_Divergence ==
    /\ last.node = "quality_assessment"
    /\ last.in.retrieval_success
    /\ last.in.key_entities = <<1, 5, 2>>
    /\ last.in.lightrag_results.matched
          = <<[k |-> 1, full |-> TRUE], [k |-> 2, full |-> FALSE], [k |-> 1, full |-> FALSE]>>
    /\ last.out.confidence_breakdown.entity_coverage
          < _evaluate_entity_coverage([state EXCEPT !.lightrag_results.matched =
                <<[k |-> 1, full |-> TRUE], [k |-> 1, full |-> FALSE],
                  [k |-> 1, full |-> FALSE]>>])
    /\ last.out.confidence_breakdown.entity_coverage < H(67)

====
